---- MODULE Spec2Model ----
(***************************************************************************)
(* Model of the S3O importer (src/s3o_import.py): load_s3o_file opens the  *)
(* input, s3o_header.load decodes the header, s3o_piece.load decodes the   *)
(* piece tree by recursive descent over absolute byte offsets.             *)
(*                                                                         *)
(* The recursion of s3o_piece.load is modelled with an explicit call       *)
(* stack: one frame per active call, holding the loop index i and the      *)
(* saved stream position `offset` of lines 255-264.                        *)
(***************************************************************************)
EXTENDS Integers, Sequences, FiniteSets, TLC

VARIABLES
    file,       \* the bytes of the input file (content, abstractly laid out)
    pc,         \* position inside load_s3o_file
    call,       \* number of load_s3o_file calls started in this session
    fhandle,    \* state of the handle opened at line 303
    pos,        \* stream position of fhandle
    header,     \* the s3o_header instance of line 305
    stack,      \* active s3o_piece.load calls, root first
    pieces,     \* every s3o_piece instance whose own record has been loaded
    children,   \* the list object bound to the class attribute s3o_piece.children
    err         \* the exception that ended the current call, if any

vars == <<file, pc, call, fhandle, pos, header, stack, pieces, children, err>>

----------------------------------------------------------------------------
\* Bounds of the model.

NumPieces == 3        \* piece records present in an input file
MaxChildren == 2      \* longest child-offset table of one piece
MaxEdges == 3         \* child-offset entries in one file, all tables together
MaxVerts == 4         \* largest numVerts
MaxTable == 6         \* largest vertTableSize
RecursionLimit == 4   \* nested s3o_piece.load calls the interpreter allows
MaxCalls == 2         \* load_s3o_file calls in one session

----------------------------------------------------------------------------
\* Sizes fixed by the binary formats.

HeaderSize == 52      \* calcsize("<12sI5f4I")
PieceSize == 52       \* calcsize("<10I3f")
VertSize == 32        \* calcsize("<8f")
U32Size == 4          \* fhandle.read(4)

Min(a, b) == IF a < b THEN a ELSE b

----------------------------------------------------------------------------
\* Exceptions: the class raised and its message.

Exc(t, m, l) == [type |-> t, msg |-> m, line |-> l]
NoError == Exc("none", "", 0)
StructError(l) == Exc("struct.error", "unpack requires a buffer of more bytes", l)
UnicodeDecodeError(l) == Exc("UnicodeDecodeError", "'ascii' codec can't decode byte", l)

----------------------------------------------------------------------------
\* Layout of the generated input files (absolute byte offsets).

PieceIds == 1 .. NumPieces
PieceOffset(i) == HeaderSize + PieceSize * (i - 1)
PieceOffsets == { PieceOffset(i) : i \in PieceIds }
ChildTableBase == PieceOffset(NumPieces + 1)
ChildTableOffset(i) == ChildTableBase + U32Size * MaxChildren * (i - 1)
StrBase == ChildTableOffset(NumPieces + 1)
NameSize == 2 * U32Size
NameOffset(i) == StrBase + NameSize * (i - 1)
Tex1Offset == NameOffset(NumPieces + 1)
Tex2Offset == Tex1Offset + NameSize
VertBase == Tex2Offset + NameSize
VertOffset(i) == VertBase + VertSize * MaxVerts * (i - 1)
TableCap == MaxTable + 3
IndexBase == VertOffset(NumPieces + 1)
IndexOffset(i) == IndexBase + U32Size * TableCap * (i - 1)
FullSize == IndexOffset(NumPieces + 1)

WordOffsets ==
    { ChildTableOffset(i) + U32Size * k : i \in PieceIds, k \in 0 .. (MaxChildren - 1) }
    \cup { IndexOffset(i) + U32Size * k : i \in PieceIds, k \in 0 .. (TableCap - 1) }
StrOffsets == { NameOffset(i) : i \in PieceIds } \cup { Tex1Offset, Tex2Offset }

\* A geometry-less piece: no vertices, an empty triangle table.
Anchor == [numVerts |-> 0, primitiveType |-> 0, vertTableSize |-> 0, m |-> 1]

\* An input file, by what its regions hold: kids[i] is the child-offset table
\* of piece record i and geom[i] its geometry; word k of its index table
\* holds k % geom[i].m.  Bytes the layout does not name are zero.
MkFile(magic, version, root, tex1, tex1name, tex2, kids, geom, size) ==
    [ size            |-> size,
      magic           |-> magic,
      version         |-> version,
      rootPieceOffset |-> root,
      texture1Offset  |-> tex1,
      texture2Offset  |-> tex2,
      tex1name        |-> tex1name,
      kids            |-> kids,
      geom            |-> geom ]

\* The piece record the file holds at offset o, a member of PieceOffsets.
RecordAt(f, o) ==
    LET i == ((o - HeaderSize) \div PieceSize) + 1
    IN  [ nameOffset      |-> NameOffset(i),
          numChildren     |-> Len(f.kids[i]),
          childrenOffset  |-> ChildTableOffset(i),
          numVerts        |-> f.geom[i].numVerts,
          vertsOffset     |-> VertOffset(i),
          primitiveType   |-> f.geom[i].primitiveType,
          vertTableSize   |-> f.geom[i].vertTableSize,
          vertTableOffset |-> IndexOffset(i) ]

\* The 32-bit word the file holds at offset o, a member of WordOffsets.
WordAt(f, o) ==
    IF o < StrBase
    THEN LET i == ((o - ChildTableBase) \div (U32Size * MaxChildren)) + 1
             k == ((o - ChildTableOffset(i)) \div U32Size) + 1
         IN  IF k <= Len(f.kids[i]) THEN f.kids[i][k] ELSE 0
    ELSE LET i == ((o - IndexBase) \div (U32Size * TableCap)) + 1
             k == (o - IndexOffset(i)) \div U32Size
         IN  k % f.geom[i].m

\* The bytes, up to the first zero byte, the file holds at offset o, a member
\* of StrOffsets: "pN" for the name of piece N, "t2" for the second texture.
StringAt(f, o) ==
    IF o = Tex1Offset THEN f.tex1name
    ELSE IF o = Tex2Offset THEN <<116, 50>>
    ELSE <<112, 49 + ((o - StrBase) \div NameSize)>>

----------------------------------------------------------------------------
\* Stream primitives.

\* fhandle.read(n) at position p returned fewer than n bytes.
Short(f, p, n) == p + n > f.size

\* The little-endian uint32 at absolute offset o.
U32At(f, o) == IF o \in WordOffsets THEN WordAt(f, o) ELSE 0

Range(s) == { s[k] : k \in 1 .. Len(s) }

\* read_string: seek to offset, read bytes up to a zero byte or the end of the
\* stream, decoding each byte as ASCII.  pos is where the stream is left.
read_string(f, offset, l) ==
    LET bytes == IF offset \in StrOffsets /\ offset < f.size THEN StringAt(f, offset) ELSE <<>>
        end   == IF offset >= f.size THEN offset ELSE Min(offset + Len(bytes) + 1, f.size)
    IN  IF \E k \in 1 .. Len(bytes) : bytes[k] > 127
        THEN [err |-> UnicodeDecodeError(l), string |-> <<>>, pos |-> end]
        ELSE [err |-> NoError, string |-> bytes, pos |-> end]

----------------------------------------------------------------------------
\* s3o_header

\* 'Spring unit' as character codes.
SpringUnit == <<83, 112, 114, 105, 110, 103, 32, 117, 110, 105, 116>>

\* Characters str.strip() removes.
Whitespace == (9 .. 13) \cup (28 .. 32)

RECURSIVE lstrip(_)
lstrip(s) == IF s # <<>> /\ Head(s) \in Whitespace THEN lstrip(Tail(s)) ELSE s

RECURSIVE rstrip(_)
rstrip(s) ==
    IF s # <<>> /\ s[Len(s)] \in Whitespace THEN rstrip(SubSeq(s, 1, Len(s) - 1)) ELSE s

\* data[0].decode('ascii').replace('\x00', '').strip()
CleanMagic(bytes) == rstrip(lstrip(SelectSeq(bytes, LAMBDA b : b # 0)))

\* The class attributes of s3o_header: what a fresh instance reads as.
\* texture1 and texture2 are no class attributes: Unset until load assigns them.
Unset == <<-1>>
HeaderDefaults ==
    [ magic |-> SpringUnit, version |-> 0, rootPieceOffset |-> 0,
      texture1Offset |-> 0, texture2Offset |-> 0,
      texture1 |-> Unset, texture2 |-> Unset ]

\* The exception of line 103: the message 'Wrong file version: ' + self.version
\* adds a str and an int, so building the ValueError raises TypeError.
VersionError == Exc("TypeError", "Can't convert 'int' object to str implicitly", 103)

\* s3o_header.load: the exception raised (NoError when none), the instance as
\* the call leaves it, and the stream position.
s3o_header_load(f) ==
    IF Short(f, 0, HeaderSize)
    THEN [err |-> StructError(96), header |-> HeaderDefaults, pos |-> Min(HeaderSize, f.size)]
    ELSE IF \E k \in 1 .. Len(f.magic) : f.magic[k] > 127
    THEN [err |-> UnicodeDecodeError(97), header |-> HeaderDefaults, pos |-> HeaderSize]
    ELSE
    LET none == [err |-> NoError, string |-> <<>>, pos |-> HeaderSize]
        h1 == [HeaderDefaults EXCEPT !.magic = CleanMagic(f.magic)]
        h2 == [h1 EXCEPT !.version = f.version]
        h3 == [h2 EXCEPT !.rootPieceOffset = f.rootPieceOffset,
                         !.texture1Offset = f.texture1Offset]
        t1 == IF f.texture1Offset = 0
              THEN none
              ELSE read_string(f, f.texture1Offset, 117)
        h4 == [h3 EXCEPT !.texture1 = t1.string, !.texture2Offset = f.texture2Offset]
        t2 == IF f.texture2Offset = 0
              THEN [none EXCEPT !.pos = t1.pos]
              ELSE read_string(f, f.texture2Offset, 123)
    IN  IF h1.magic # SpringUnit
        THEN [err |-> Exc("IOError", "Not a Spring unit file", 99), header |-> h1,
              pos |-> HeaderSize]
        ELSE IF h2.version # 0
        THEN [err |-> VersionError, header |-> h2, pos |-> HeaderSize]
        ELSE IF t1.err # NoError
        THEN [err |-> t1.err, header |-> h3, pos |-> t1.pos]
        ELSE IF t2.err # NoError
        THEN [err |-> t2.err, header |-> h4, pos |-> t2.pos]
        ELSE [err |-> NoError, header |-> [h4 EXCEPT !.texture2 = t2.string], pos |-> t2.pos]

----------------------------------------------------------------------------
\* s3o_piece

\* The record read when the 52 bytes at `offset` are all zero.
ZeroRecord ==
    [ nameOffset |-> 0, numChildren |-> 0, childrenOffset |-> 0, numVerts |-> 0,
      vertsOffset |-> 0, primitiveType |-> 0, vertTableSize |-> 0, vertTableOffset |-> 0 ]

\* struct.unpack(binary_format, ...) of the piece record at `offset`.
PieceRecord(f, offset) ==
    IF offset \in PieceOffsets THEN RecordAt(f, offset) ELSE ZeroRecord

\* The while loops of lines 185-191 and 195-201: i counts indices, each turn
\* reads g of them at stream position p and appends one face.
RECURSIVE LoadFaces(_, _, _, _, _, _)
LoadFaces(f, g, vertTableSize, i, p, faces) ==
    IF ~(i < vertTableSize)
    THEN [err |-> NoError, faces |-> faces, pos |-> p]
    ELSE IF Short(f, p, U32Size * g)
    THEN [err |-> StructError(IF g = 3 THEN 188 ELSE 198), faces |-> faces, pos |-> p]
    ELSE LoadFaces(f, g, vertTableSize, i + g, p + U32Size * g,
                   Append(faces, [j \in 1 .. g |-> U32At(f, p + U32Size * (j - 1))]))

TristripsError == Exc("TypeError", "Tristrips are unsupported so far", 193)

\* The exception of line 203: 'Unknown primitive type: ' + self.primitiveType
\* adds a str and an int, which raises TypeError before the raise statement does.
UnknownPrimitiveError ==
    Exc("TypeError", "Can't convert 'int' object to str implicitly", 203)

\* Lines 181-203: the primitive table.
LoadPrimitives(f, rec) ==
    IF rec.primitiveType = 0
    THEN LoadFaces(f, 3, rec.vertTableSize, 0, rec.vertTableOffset, <<>>)
    ELSE IF rec.primitiveType = 1
    THEN [err |-> TristripsError, faces |-> <<>>, pos |-> rec.vertTableOffset]
    ELSE IF rec.primitiveType = 2
    THEN LoadFaces(f, 4, rec.vertTableSize, 0, rec.vertTableOffset, <<>>)
    ELSE [err |-> UnknownPrimitiveError, faces |-> <<>>, pos |-> rec.vertTableOffset]

\* Lines 176-179: the first vertex whose 32 bytes the stream cannot supply.
VertsError(f, rec) ==
    IF \E i \in 0 .. (rec.numVerts - 1) : Short(f, rec.vertsOffset + i * VertSize, VertSize)
    THEN StructError(282)
    ELSE NoError

\* Lines 217-218: bm.verts[i] raises IndexError for i >= len(bm.verts);
\* bm.faces.new raises ValueError for a face that uses a vertex twice or
\* joins the vertices of a face made before.
RECURSIVE BmFaces(_, _, _, _)
BmFaces(numVerts, faces, k, made) ==
    IF k > Len(faces) THEN NoError
    ELSE IF \E j \in 1 .. Len(faces[k]) : faces[k][j] >= numVerts
    THEN Exc("IndexError", "BMElemSeq[index]: index out of range", 218)
    ELSE IF Cardinality(Range(faces[k])) < Len(faces[k])
    THEN Exc("ValueError", "faces.new(verts): found the same (BMVert) used multiple times", 218)
    ELSE IF Range(faces[k]) \in made
    THEN Exc("ValueError", "faces.new(verts): face already exists", 218)
    ELSE BmFaces(numVerts, faces, k + 1, made \cup {Range(faces[k])})

\* Lines 205-244: an EMPTY object for a piece without vertices, a mesh otherwise.
BuildObject(rec, faces) ==
    IF rec.numVerts = 0 THEN NoError ELSE BmFaces(rec.numVerts, faces, 1, {})

\* Lines 151-254 of s3o_piece.load, for the instance created by call `c` with
\* parent `parent` (0 for the root, whose parent is '').  Yields the exception
\* raised (NoError when none), the instance, and the stream position at the
\* head of the loop of line 255.
LoadSelf(f, offset, parent, c) ==
    LET rec  == PieceRecord(f, offset)
        name == read_string(f, rec.nameOffset, 172)
        verr == VertsError(f, rec)
        prim == LoadPrimitives(f, rec)
        berr == BuildObject(rec, prim.faces)
        obj  == [ call |-> c, offset |-> offset, parent |-> parent,
                  name |-> name.string,
                  numChildren |-> rec.numChildren,
                  childrenOffset |-> rec.childrenOffset,
                  numVerts |-> rec.numVerts,
                  primitiveType |-> rec.primitiveType,
                  vertTableSize |-> rec.vertTableSize,
                  vertTableOffset |-> rec.vertTableOffset,
                  verts |-> [i \in 1 .. rec.numVerts |-> rec.vertsOffset + (i - 1) * VertSize],
                  faces |-> prim.faces ]
        e == IF Short(f, offset, PieceSize) THEN StructError(153)
             ELSE IF name.err # NoError THEN name.err
             ELSE IF verr # NoError THEN verr
             ELSE IF prim.err # NoError THEN prim.err
             ELSE berr
    IN  [ err |-> e, obj |-> obj,
          pos |-> IF rec.numChildren > 0 THEN rec.childrenOffset ELSE prim.pos ]

----------------------------------------------------------------------------
\* The input files explored.

GoodMagic == Append(SpringUnit, 0)                                \* "Spring unit\0"
InteriorNul == <<83, 112, 114, 0, 105, 110, 103, 32, 117, 110, 105, 116>>
LeadingSpace == <<32>> \o SpringUnit
BadMagic == <<83, 112, 114, 105, 110, 103, 32, 117, 110, 105, 120, 0>>   \* "Spring unix\0"
NonAsciiMagic == <<255>> \o SpringUnit
Magics == {GoodMagic, InteriorNul, LeadingSpace, BadMagic, NonAsciiMagic}

NoKids == [i \in PieceIds |-> <<>>]
AllAnchors == [i \in PieceIds |-> Anchor]
Triangle == [numVerts |-> 3, primitiveType |-> 0, vertTableSize |-> 3, m |-> 3]
AllTriangles == [i \in PieceIds |-> Triangle]

\* Files that differ in their header; every piece is an anchor without children.
HeaderFiles ==
    { MkFile(magic, version, root,
             IF tex1 = "none" THEN 0 ELSE Tex1Offset,
             IF tex1 = "nonascii" THEN <<116, 233>> ELSE <<116, 49>>,
             tex2, NoKids, AllAnchors, size) :
        magic \in Magics, version \in 0 .. 1, root \in PieceOffsets,
        tex1 \in {"none", "ascii", "nonascii"}, tex2 \in {0, Tex2Offset},
        size \in {FullSize, HeaderSize - U32Size, PieceOffset(1) + U32Size} }

\* Child-offset tables of at most MaxChildren entries, each the offset of a
\* piece record: any graph over the records, cycles and shared records included.
KidSeqs == UNION { [1 .. n -> PieceOffsets] : n \in 0 .. MaxChildren }

\* The tables of the first n piece records, with at most e entries together.
RECURSIVE Tables(_, _)
Tables(n, e) ==
    IF n = 0 THEN { <<>> }
    ELSE UNION { { Append(t, s) : t \in Tables(n - 1, e - Len(s)) } :
                 s \in { q \in KidSeqs : Len(q) <= e } }

\* Files that differ in their piece graph.
TreeFiles ==
    { MkFile(GoodMagic, 0, PieceOffset(1), 0, <<>>, 0, kids, geom, FullSize) :
        kids \in Tables(NumPieces, MaxEdges), geom \in {AllAnchors, AllTriangles} }

Geoms ==
    [ numVerts : 0 .. MaxVerts, primitiveType : 0 .. 3,
      vertTableSize : 0 .. MaxTable, m : 1 .. (MaxVerts + 1) ]

\* Three piece graphs, with the piece that carries the geometry:
\* a lone root; a root with one child, the child carrying it; and a root
\* carrying it with two children, the first of which has a child of its own.
Shapes ==
    { [kids |-> NoKids, at |-> 1],
      [kids |-> [NoKids EXCEPT ![1] = <<PieceOffset(2)>>], at |-> 2],
      [kids |-> [NoKids EXCEPT ![1] = <<PieceOffset(2), PieceOffset(3)>>,
                               ![2] = <<PieceOffset(3)>>], at |-> 1] }

\* Files that differ in the geometry of one piece.  The file either has its
\* full size or ends with the last declared index of that piece's table.
GeomFiles ==
    { MkFile(GoodMagic, 0, PieceOffset(1), 0, <<>>, 0, sh.kids,
             [AllAnchors EXCEPT ![sh.at] = g],
             IF tight THEN IndexOffset(sh.at) + U32Size * g.vertTableSize ELSE FullSize) :
        sh \in Shapes, g \in Geoms, tight \in BOOLEAN }

Files == HeaderFiles \cup TreeFiles \cup GeomFiles

----------------------------------------------------------------------------
\* The session: load_s3o_file called up to MaxCalls times on one file.

Init ==
    /\ file \in Files
    /\ pc = "idle"
    /\ call = 0
    /\ fhandle = "none"
    /\ pos = 0
    /\ header = HeaderDefaults
    /\ stack = <<>>
    /\ pieces = <<>>
    /\ children = <<>>
    /\ err = NoError

Top == stack[Len(stack)]

\* An exception leaves load_s3o_file: every frame is unwound, nothing below
\* the raise runs.
Raise(e) ==
    /\ pc' = "failed"
    /\ err' = e
    /\ stack' = <<>>

\* Lines 295-303: fhandle = open(s3o_filename, "rb").
Open ==
    /\ pc \in {"idle", "done", "failed"}
    /\ call < MaxCalls
    /\ call' = call + 1
    /\ pc' = "opened"
    /\ fhandle' = "open"
    /\ pos' = 0
    /\ err' = NoError
    /\ stack' = <<>>
    /\ UNCHANGED <<file, header, pieces, children>>

\* Lines 305-306: header = s3o_header(); header.load(fhandle).
HeaderLoad ==
    /\ pc = "opened"
    /\ LET r == s3o_header_load(file)
       IN  /\ header' = r.header
           /\ pos' = r.pos
           /\ IF r.err # NoError
              THEN Raise(r.err)
              ELSE pc' = "header_done" /\ UNCHANGED <<err, stack>>
    /\ UNCHANGED <<file, call, fhandle, pieces, children>>

\* Lines 308-342: the material; find_in_folder returns None for a texture
\* that is not in the folder, and os.path.join then raises TypeError.
MaterialSetup ==
    /\ pc = "header_done"
    /\ \E found1, found2 \in BOOLEAN :
        LET msg == "join() argument must be str or bytes, not 'NoneType'"
        IN  IF header.texture1 # <<>> /\ ~found1
            THEN Raise(Exc("TypeError", msg, 320))
            ELSE IF header.texture2 # <<>> /\ ~found2
            THEN Raise(Exc("TypeError", msg, 332))
            ELSE pc' = "material_done" /\ UNCHANGED <<err, stack>>
    /\ UNCHANGED <<file, call, fhandle, pos, header, pieces, children>>

\* The loop of lines 255-264 without the seek of line 264: the stream stays
\* where the child's load left it.
RestoredPos_NoSeek(frame, p) == p

\* Line 264: fhandle.seek(offset, os.SEEK_SET) after the child has loaded;
\* `frame` is the parent's, p the position the child's load left.
RestoredPos(frame, p) == frame.offset

\* Line 263: self.children.append(child).  No instance ever assigns
\* self.children, so the attribute resolves to the list of the class.
AppendChild(list, child) == Append(list, child)

\* Lines 344-345: rootPiece = s3o_piece(); rootPiece.load(...), up to the head
\* of its loop over the children.
LoadRoot ==
    /\ pc = "material_done"
    /\ LET r == LoadSelf(file, header.rootPieceOffset, 0, call)
       IN  IF r.err # NoError
           THEN Raise(r.err) /\ UNCHANGED <<pos, pieces>>
           ELSE /\ pieces' = Append(pieces, r.obj)
                /\ stack' = << [piece |-> Len(pieces) + 1, i |-> 0, offset |-> 0] >>
                /\ pos' = r.pos
                /\ pc' = "loading"
                /\ UNCHANGED err
    /\ UNCHANGED <<file, call, fhandle, header, children>>

\* Lines 255-262: one turn of the loop up to the call child.load(...), and the
\* child's load up to the head of its own loop.  `offset` is fhandle.tell()
\* after the 4 bytes were read.  The interpreter refuses a call nested deeper
\* than its recursion limit (RecursionError; RuntimeError before Python 3.5).
LoadChild ==
    /\ pc = "loading"
    /\ Top.i < pieces[Top.piece].numChildren
    /\ LET childOffset == U32At(file, pos)
           offset == pos + U32Size
           r == LoadSelf(file, childOffset, Top.piece, call)
       IN  IF Short(file, pos, U32Size)
           THEN Raise(StructError(258)) /\ UNCHANGED <<pos, pieces>>
           ELSE IF Len(stack) >= RecursionLimit
           THEN /\ Raise(Exc("RecursionError", "maximum recursion depth exceeded", 262))
                /\ UNCHANGED <<pos, pieces>>
           ELSE IF r.err # NoError
           THEN Raise(r.err) /\ UNCHANGED <<pos, pieces>>
           ELSE /\ pieces' = Append(pieces, r.obj)
                /\ stack' = Append([stack EXCEPT ![Len(stack)].offset = offset],
                                   [piece |-> Len(pieces) + 1, i |-> 0, offset |-> 0])
                /\ pos' = r.pos
                /\ UNCHANGED <<pc, err>>
    /\ UNCHANGED <<file, call, fhandle, header, children>>

\* Lines 263-265: the child's load returns; the parent appends it, seeks back
\* and goes to the next turn of its loop.
ReturnChild ==
    /\ pc = "loading"
    /\ Len(stack) > 1
    /\ ~(Top.i < pieces[Top.piece].numChildren)
    /\ LET parent == stack[Len(stack) - 1]
       IN  /\ children' = AppendChild(children, Top.piece)
           /\ pos' = RestoredPos(parent, pos)
           /\ stack' = [SubSeq(stack, 1, Len(stack) - 1) EXCEPT ![Len(stack) - 1].i = parent.i + 1]
    /\ UNCHANGED <<file, pc, call, fhandle, header, pieces, err>>

\* Lines 345-358: the root's load returns; the two markers; fhandle.close().
Finish ==
    /\ pc = "loading"
    /\ Len(stack) = 1
    /\ ~(Top.i < pieces[Top.piece].numChildren)
    /\ stack' = <<>>
    /\ fhandle' = "closed"
    /\ pc' = "done"
    /\ UNCHANGED <<file, call, pos, header, pieces, children, err>>

Next ==
    \/ Open
    \/ HeaderLoad
    \/ MaterialSetup
    \/ LoadRoot
    \/ LoadChild
    \/ ReturnChild
    \/ Finish

Spec == Init /\ [][Next]_vars

----------------------------------------------------------------------------
\* Vocabulary of the properties.

\* self.children of instance p: line 134 binds `children` on the class and no
\* line binds it on an instance, so every instance reads the same list.
ChildrenOf(p) == children

\* The instances created by the current call of load_s3o_file.
CallPieces == { p \in 1 .. Len(pieces) : pieces[p].call = call }

\* The child-offset table of instance p, as the file holds it.
ChildTable(p) ==
    [ k \in 1 .. pieces[p].numChildren |->
        U32At(file, pieces[p].childrenOffset + U32Size * (k - 1)) ]

\* P.children is the pieces decoded from P's table, in table order.
ChildrenMatchTable(p) ==
    /\ Len(ChildrenOf(p)) = pieces[p].numChildren
    /\ \A k \in 1 .. Len(ChildrenOf(p)) :
        /\ k <= pieces[p].numChildren
        /\ pieces[ChildrenOf(p)[k]].parent = p
        /\ pieces[ChildrenOf(p)[k]].offset = ChildTable(p)[k]

\* The offsets of the pieces whose load is active, outermost first.
OpenOffsets == [ a \in 1 .. Len(stack) |-> pieces[stack[a].piece].offset ]

\* header.load has run in the current call, on a header the file holds in full.
HeaderRead == pc \notin {"idle", "opened"} /\ ~Short(file, 0, HeaderSize)

\* The 12 bytes of the magic decode as ASCII.
MagicDecodes == \A k \in 1 .. Len(file.magic) : file.magic[k] <= 127

----------------------------------------------------------------------------
\* C1: Cycle guard.  No piece offset is opened while a load of the same offset
\* is still active, and a decode that a revisit ends has the outcome
\* CyclicPieceGraph.
C1_CycleGuard ==
    /\ \A a, b \in 1 .. Len(stack) : a < b => OpenOffsets[a] # OpenOffsets[b]
    /\ (pc = "failed" /\ err.line = 262) => err.type = "CyclicPieceGraph"

\* C2: Child order preservation.  After a successful decode every piece of the
\* tree has as children exactly the pieces decoded from its own child-offset
\* table, in table order.
C2_ChildOrder ==
    pc = "done" => \A p \in CallPieces : ChildrenMatchTable(p)

\* C3: Index bounds.  In every successfully decoded piece every index of every
\* face is below the number of vertices: a table with an index at or above
\* numVerts never decodes.
C3_IndexBounds ==
    pc = "done" =>
        \A p \in CallPieces : \A k \in 1 .. Len(pieces[p].faces) :
            \A j \in 1 .. Len(pieces[p].faces[k]) :
                pieces[p].faces[k][j] < Len(pieces[p].verts)

\* C4: Malformed primitive table.  A successfully decoded piece has a table
\* size that is a multiple of 3 (triangles) or 4 (quads) and exactly
\* vertTableSize/3 or vertTableSize/4 faces: no index beyond the declared
\* ones is consumed into a face.
C4_MalformedTable ==
    pc = "done" =>
        \A p \in CallPieces :
            LET g == IF pieces[p].primitiveType = 0 THEN 3 ELSE 4
            IN  /\ pieces[p].vertTableSize % g = 0
                /\ Len(pieces[p].faces) * g = pieces[p].vertTableSize

\* C5: Header validation.  A header that fails validation has stored no field
\* past the one that failed, and nothing of a piece has been decoded; a magic
\* that, trimmed, is not 'Spring unit' fails with IOError (BadMagic) whatever
\* the version; a good magic with version # 0 fails with ValueError
\* (UnsupportedVersion), a kind other than that of the magic error and of the
\* primitive-type errors.
C5_HeaderValidation ==
    /\ (pc = "failed" /\ err.line \in {99, 103}) =>
        /\ header.rootPieceOffset = HeaderDefaults.rootPieceOffset
        /\ header.texture1 = Unset
        /\ CallPieces = {}
    /\ (HeaderRead /\ MagicDecodes /\ CleanMagic(file.magic) # SpringUnit) =>
        /\ pc = "failed"
        /\ err.type = "IOError"
        /\ header.version = HeaderDefaults.version
    /\ (HeaderRead /\ CleanMagic(file.magic) = SpringUnit /\ file.version # 0) =>
        /\ pc = "failed"
        /\ err.type = "ValueError"
        /\ err.type \notin {"IOError", TristripsError.type, UnknownPrimitiveError.type}

\* C6: Primitive-type rejection.  No piece with primitiveType outside {0, 2}
\* is ever decoded; type 1 fails with the tristrip error, any other value
\* with the unknown-type error, and the two are different kinds of error.
C6_PrimitiveTypeRejection ==
    /\ \A p \in 1 .. Len(pieces) : pieces[p].primitiveType \in {0, 2}
    /\ (pc = "failed" /\ err.line = 193) => err.type # UnknownPrimitiveError.type
    /\ (pc = "failed" /\ err.line = 203) => err.type # TristripsError.type

\* C7: Zero-vertex piece.  Every piece with numVerts = 0 of a successful decode
\* has no vertices and no faces, and its children are the pieces of its
\* child-offset table, in order.
C7_ZeroVertexPiece ==
    pc = "done" =>
        \A p \in CallPieces :
            pieces[p].numVerts = 0 =>
                /\ pieces[p].verts = <<>>
                /\ pieces[p].faces = <<>>
                /\ ChildrenMatchTable(p)

\* C8: Handle release.  In every terminal state of load_s3o_file, success or
\* failure, the handle opened at line 303 is closed.
C8_HandleReleased ==
    pc \in {"done", "failed"} => fhandle = "closed"

\* C9: Independence of decode calls.  The children of every piece produced by
\* a decode were all created by that decode, none by an earlier one.
C9_CallsIndependent ==
    pc = "done" =>
        \A p \in CallPieces : \A k \in 1 .. Len(ChildrenOf(p)) :
            pieces[ChildrenOf(p)[k]].call = call

\* C10: Stream-position restore.  Whenever a piece is about to read its k-th
\* child offset (k from 0), the stream is at childrenOffset + 4*k, wherever
\* the decode of the earlier children and their subtrees left it; and while
\* its k-th child is being decoded, the position it saved is the one just
\* past that child's offset, childrenOffset + 4*(k+1).
C10_ChildOffsetPosition ==
    /\ (pc = "loading" /\ Top.i < pieces[Top.piece].numChildren) =>
        pos = pieces[Top.piece].childrenOffset + U32Size * Top.i
    /\ \A a \in 1 .. (Len(stack) - 1) :
        stack[a].offset = pieces[stack[a].piece].childrenOffset + U32Size * (stack[a].i + 1)

\* A piece about to read its second child offset after its first child, which
\* has a child of its own, has been decoded, the stream having been left
\* elsewhere by that subtree.
C10_Witness ==
    /\ pc = "loading"
    /\ Top.i >= 1
    /\ Top.i < pieces[Top.piece].numChildren
    /\ \E q \in CallPieces :
        /\ pieces[q].parent # 0
        /\ pieces[pieces[q].parent].parent = Top.piece
        /\ pieces[q].vertTableOffset # pieces[Top.piece].childrenOffset
    /\ pos = pieces[Top.piece].childrenOffset + U32Size * Top.i

====
